---- MODULE Spec2Model ----
(***************************************************************************)
(* Model of model_visual.py: the shape helper tensor_shape, the rule       *)
(* engine generate_recommendations, and the top-level run main.            *)
(*                                                                         *)
(* Python strings that the code inspects character by character (layer     *)
(* type names, file extensions) are sequences of one-character strings.    *)
(* Python None is the record None; a dict is a record whose DOMAIN is its  *)
(* key set.                                                                *)
(***************************************************************************)
EXTENDS Integers, Sequences, FiniteSets, TLC

VARIABLES
    \* ---- generate_recommendations (one activation of the function) ----
    summary,          \* the argument
    pc,               \* position inside generate_recommendations
    idx,              \* number of layers the for loop has consumed
    total_params, dense_params, conv_layers, dense_layers,
    batchnorm_found, activations,
    recs,             \* the list being built
    ret,              \* the value returned by the current call (None before)
    evaluated,        \* the rules whose condition this call has evaluated
    calls,            \* number of completed calls on this summary
    prev,             \* the value returned by the previous call
    given,            \* the summary as it was handed to the first call
    \* ---- tensor_shape ----
    t, shape_out, spc,
    \* ---- main ----
    mpc, ext, TF_AVAILABLE, TORCH_AVAILABLE, ONNX_AVAILABLE,
    source,           \* what the normalizer finds in the file
    out_ok,           \* whether the output path can be opened for writing
    result, outfile, reported

recVars == <<summary, pc, idx, total_params, dense_params, conv_layers,
             dense_layers, batchnorm_found, activations, recs, ret,
             evaluated, calls, prev, given>>
shapeVars == <<t, shape_out, spc>>
mainVars == <<mpc, ext, TF_AVAILABLE, TORCH_AVAILABLE, ONNX_AVAILABLE,
              source, out_ok, result, outfile, reported>>
vars == <<recVars, shapeVars, mainVars>>

None == [py |-> "None"]

\* ------------------------------------------------------------------------
\* Bounds of the model
\* ------------------------------------------------------------------------
MaxLen == 2        \* longest freely chosen prefix of a layers sequence
MaxPad == 10       \* most repetitions of one layer appended to the prefix
MaxDims == 4       \* most dimensions of one shape handed to tensor_shape
MaxItems == 2      \* longest list of shape-like values handed to tensor_shape

\* ------------------------------------------------------------------------
\* Strings
\* ------------------------------------------------------------------------
UpperToLower ==
    [A |-> "a", B |-> "b", C |-> "c", D |-> "d", E |-> "e", F |-> "f",
     G |-> "g", H |-> "h", I |-> "i", J |-> "j", K |-> "k", L |-> "l",
     M |-> "m", N |-> "n", O |-> "o", P |-> "p", Q |-> "q", R |-> "r",
     S |-> "s", T |-> "t", U |-> "u", V |-> "v", W |-> "w", X |-> "x",
     Y |-> "y", Z |-> "z"]

\* str.lower()
lower(s) ==
    [i \in 1..Len(s) |->
        IF s[i] \in DOMAIN UpperToLower THEN UpperToLower[s[i]] ELSE s[i]]

\* sub in s
Contains(sub, s) ==
    \E i \in 0..(Len(s) - Len(sub)) : SubSeq(s, i + 1, i + Len(sub)) = sub

dense == <<"d","e","n","s","e">>
conv == <<"c","o","n","v">>
batchnorm == <<"b","a","t","c","h","n","o","r","m">>
activation == <<"a","c","t","i","v","a","t","i","o","n">>

\* ------------------------------------------------------------------------
\* generate_recommendations
\* ------------------------------------------------------------------------
NoLayerData == "No layer data available for analysis"
Shallow == "Model is shallow -> consider deeper feature extraction layers."
DenseDominate == "Dense layers dominate parameters -> use GlobalAveragePooling or bottleneck layers."
NoBatchNorm == "No BatchNorm detected -> add normalization for better training stability."
DenseHeavy == "Architecture is dense-heavy -> convolutional layers may improve feature learning."
ManyActivations == "Many activation layers detected -> verify activation placement efficiency."
Large == "Model is large -> consider pruning or lightweight architectures."
Balanced == "Architecture looks balanced - no major structural issues detected."

ShallowLimit == 10
ActivationLimit == 5
LargeLimit == 10000000

\* summary.get("layers", [])
GetLayers(s) == IF "layers" \in DOMAIN s THEN s.layers ELSE <<>>
\* layer.get("params", 0)
GetParams(layer) == IF "params" \in DOMAIN layer THEN layer.params ELSE 0
\* layer.get("type", "").lower()
GetName(layer) == IF "type" \in DOMAIN layer THEN lower(layer.type) ELSE <<>>

\* Local aggregates of one call, as a record (lines 163-168)
ZeroAgg ==
    [total_params |-> 0, dense_params |-> 0, conv_layers |-> 0,
     dense_layers |-> 0, batchnorm_found |-> FALSE, activations |-> <<>>]

\* The loop body with the conv test chained to the dense test by elif
ScanLayerElif(agg, layer) ==
    LET params == GetParams(layer)
        name == GetName(layer)
    IN  [total_params |-> agg.total_params + params,
         dense_layers |->
            IF Contains(dense, name) THEN agg.dense_layers + 1
                                     ELSE agg.dense_layers,
         dense_params |->
            IF Contains(dense, name) THEN agg.dense_params + params
                                     ELSE agg.dense_params,
         conv_layers |->
            IF ~Contains(dense, name) /\ Contains(conv, name)
                THEN agg.conv_layers + 1 ELSE agg.conv_layers,
         batchnorm_found |->
            IF Contains(batchnorm, name) THEN TRUE ELSE agg.batchnorm_found,
         activations |->
            IF Contains(activation, name) THEN Append(agg.activations, name)
                                          ELSE agg.activations]

\* One iteration of the for loop over layers (lines 170-188)
ScanLayer(agg, layer) ==
    LET params == GetParams(layer)
        name == GetName(layer)
    IN  [total_params |-> agg.total_params + params,
         dense_layers |->
            IF Contains(dense, name) THEN agg.dense_layers + 1
                                     ELSE agg.dense_layers,
         dense_params |->
            IF Contains(dense, name) THEN agg.dense_params + params
                                     ELSE agg.dense_params,
         conv_layers |->
            IF Contains(conv, name) THEN agg.conv_layers + 1
                                    ELSE agg.conv_layers,
         batchnorm_found |->
            IF Contains(batchnorm, name) THEN TRUE ELSE agg.batchnorm_found,
         activations |->
            IF Contains(activation, name) THEN Append(agg.activations, name)
                                          ELSE agg.activations]

\* The conditions with rule 4 written as the elif of rule 3
RuleCondElif(i, agg, n) ==
    CASE i = 1 -> n < ShallowLimit
      [] i = 2 -> 2 * agg.dense_params > agg.total_params
      [] i = 3 -> ~agg.batchnorm_found
      [] i = 4 -> agg.batchnorm_found /\ agg.dense_layers > agg.conv_layers
      [] i = 5 -> Len(agg.activations) > ActivationLimit
      [] i = 6 -> agg.total_params > LargeLimit

\* The six conditions of the rule section (lines 192-220). n is len(layers).
\* dense_params > total_params * 0.5 is compared on integers as
\* 2 * dense_params > total_params.
RuleCond(i, agg, n) ==
    CASE i = 1 -> n < ShallowLimit
      [] i = 2 -> 2 * agg.dense_params > agg.total_params
      [] i = 3 -> ~agg.batchnorm_found
      [] i = 4 -> agg.dense_layers > agg.conv_layers
      [] i = 5 -> Len(agg.activations) > ActivationLimit
      [] i = 6 -> agg.total_params > LargeLimit

RuleText ==
    <<Shallow, DenseDominate, NoBatchNorm, DenseHeavy, ManyActivations, Large>>

\* The statement with recs.insert(0, text) in place of recs.append(text)
RuleStepPrepend(i, r, agg, n) ==
    IF RuleCond(i, agg, n) THEN <<RuleText[i]>> \o r ELSE r

\* One "if cond: recs.append(text)" statement
RuleStep(i, r, agg, n) ==
    IF RuleCond(i, agg, n) THEN Append(r, RuleText[i]) ELSE r

\* The sentinel appended without the "if not recs" test
FinalStepAlways(r) == Append(r, Balanced)

\* if not recs: recs.append(balanced)   (lines 222-223)
FinalStep(r) == IF r = <<>> THEN Append(r, Balanced) ELSE r

\* The list a call would start from if a list survived the previous call
StaleRecs == IF calls = 0 THEN <<>> ELSE recs

\* recs = []   (line 157)
InitialRecs == <<>>

\* if not layers   (line 160)
NeverShort(layers) == FALSE

ShortCircuit(layers) == layers = <<>>

RECURSIVE ScanAll(_, _, _)
ScanAll(agg, layers, i) ==
    IF i > Len(layers) THEN agg
    ELSE ScanAll(ScanLayer(agg, layers[i]), layers, i + 1)

RECURSIVE RulesFrom(_, _, _, _)
RulesFrom(i, r, agg, n) ==
    IF i > 6 THEN r ELSE RulesFrom(i + 1, RuleStep(i, r, agg, n), agg, n)

\* The whole function, as main calls it (lines 155-225)
generate_recommendations(s) ==
    LET layers == GetLayers(s)
    IN  IF ShortCircuit(layers) THEN <<NoLayerData>>
        ELSE FinalStep(RulesFrom(1, InitialRecs,
                                 ScanAll(ZeroAgg, layers, 1), Len(layers)))

\* ---- inputs of the engine --------------------------------------------
TDense == <<"D","e","n","s","e">>
TConv2D == <<"C","o","n","v","2","D">>
TBatchNorm == <<"B","a","t","c","h","N","o","r","m","a","l","i","z","a","t","i","o","n">>
TActivation == <<"A","c","t","i","v","a","t","i","o","n">>
TDenseConv == <<"D","e","n","s","e","C","o","n","v">>

\* Layer records: Keras-style (type, params) and PyTorch-style (class only)
LayerSet ==
    { [name |-> "a", type |-> TConv2D, params |-> 100],
      [name |-> "b", type |-> TDense, params |-> 600],
      [name |-> "c", type |-> TDense, params |-> 300],
      [name |-> "d", type |-> TBatchNorm, params |-> 0],
      [name |-> "e", type |-> TActivation, params |-> 0],
      [name |-> "f", type |-> TConv2D, params |-> 1500000],
      [name |-> "g", type |-> TDenseConv, params |-> 50],
      [name |-> "h", class |-> "Linear"] }

SeqsUpTo(S, n) == UNION { [1..k -> S] : k \in 0..n }

\* The layers repeated to make deep graphs
PadSet ==
    { l \in LayerSet : l.name \in {"c", "e", "f", "h"} }

\* A prefix of at most MaxLen arbitrary layers followed by up to MaxPad
\* copies of one layer
LayerSeqs ==
    { p \o [i \in 1..k |-> f] :
        p \in SeqsUpTo(LayerSet, MaxLen), f \in PadSet, k \in 0..MaxPad }

Summaries ==
    { [model_name |-> "m", inputs |-> None, outputs |-> None, layers |-> ls] :
        ls \in LayerSeqs }
    \cup { [info |-> "State dict detected", keys |-> <<"w">>] }

Repeats == 1       \* how many times the call is repeated on the same summary

Agg ==
    [total_params |-> total_params, dense_params |-> dense_params,
     conv_layers |-> conv_layers, dense_layers |-> dense_layers,
     batchnorm_found |-> batchnorm_found, activations |-> activations]

SetAgg(a) ==
    /\ total_params' = a.total_params
    /\ dense_params' = a.dense_params
    /\ conv_layers' = a.conv_layers
    /\ dense_layers' = a.dense_layers
    /\ batchnorm_found' = a.batchnorm_found
    /\ activations' = a.activations

aggVars == <<total_params, dense_params, conv_layers, dense_layers,
             batchnorm_found, activations>>

RecInit ==
    /\ summary \in Summaries
    /\ given = summary
    /\ pc = "start"
    /\ idx = 0
    /\ total_params = None /\ dense_params = None /\ conv_layers = None
    /\ dense_layers = None /\ batchnorm_found = None /\ activations = None
    /\ recs = None /\ ret = None /\ prev = None
    /\ evaluated = {}
    /\ calls = 0

RecIdle ==
    /\ summary = None /\ given = None /\ pc = "idle" /\ idx = 0
    /\ total_params = None /\ dense_params = None /\ conv_layers = None
    /\ dense_layers = None /\ batchnorm_found = None /\ activations = None
    /\ recs = None /\ ret = None /\ prev = None
    /\ evaluated = {} /\ calls = 0

\* lines 157-168: recs = [], the zero-layer return, the zeroed aggregates
Enter ==
    /\ pc = "start"
    /\ recs' = InitialRecs
    /\ evaluated' = {}
    /\ idx' = 0
    /\ IF ShortCircuit(GetLayers(summary))
          THEN /\ ret' = <<NoLayerData>>
               /\ pc' = "done"
               /\ UNCHANGED aggVars
          ELSE /\ SetAgg(ZeroAgg)
               /\ pc' = IF Len(GetLayers(summary)) > 0 THEN "scan" ELSE "rule1"
               /\ ret' = ret
    /\ UNCHANGED <<summary, calls, prev, given, shapeVars, mainVars>>

\* lines 170-188: one iteration of the for loop; after the last layer
\* control falls through to the rule section
Scan ==
    /\ pc = "scan"
    /\ idx < Len(GetLayers(summary))
    /\ SetAgg(ScanLayer(Agg, GetLayers(summary)[idx + 1]))
    /\ idx' = idx + 1
    /\ pc' = IF idx + 1 < Len(GetLayers(summary)) THEN "scan" ELSE "rule1"
    /\ UNCHANGED <<summary, recs, ret, evaluated, calls, prev, given,
                   shapeVars, mainVars>>

RulePc == <<"rule1", "rule2", "rule3", "rule4", "rule5", "rule6", "final">>

\* One of the six if statements of lines 192-220
RuleAt(i) ==
    /\ pc = RulePc[i]
    /\ recs' = RuleStep(i, recs, Agg, Len(GetLayers(summary)))
    /\ evaluated' = evaluated \cup {i}
    /\ pc' = RulePc[i + 1]
    /\ UNCHANGED <<summary, idx, aggVars, ret, calls, prev, given,
                   shapeVars, mainVars>>

Rule1 == RuleAt(1)
Rule2 == RuleAt(2)
Rule3 == RuleAt(3)
Rule4 == RuleAt(4)
Rule5 == RuleAt(5)
Rule6 == RuleAt(6)

\* lines 222-225: the balanced sentinel and the return
Final ==
    /\ pc = "final"
    /\ recs' = FinalStep(recs)
    /\ ret' = recs'
    /\ pc' = "done"
    /\ UNCHANGED <<summary, idx, aggVars, evaluated, calls, prev, given,
                   shapeVars, mainVars>>

\* The caller keeps the returned list and calls again on the same summary
Again ==
    /\ pc = "done"
    /\ calls < Repeats
    /\ prev' = ret
    /\ ret' = None
    /\ calls' = calls + 1
    /\ pc' = "start"
    /\ UNCHANGED <<summary, idx, aggVars, recs, evaluated, given,
                   shapeVars, mainVars>>

ShapeIdle == t = None /\ shape_out = None /\ spc = "idle"

MainIdle ==
    /\ mpc = "idle" /\ ext = None /\ TF_AVAILABLE = FALSE
    /\ TORCH_AVAILABLE = FALSE /\ ONNX_AVAILABLE = FALSE
    /\ source = None /\ out_ok = FALSE /\ result = None
    /\ outfile = None /\ reported = FALSE

RecNext ==
    \/ Enter \/ Scan
    \/ Rule1 \/ Rule2 \/ Rule3 \/ Rule4 \/ Rule5 \/ Rule6
    \/ Final \/ Again

SpecRecInit == RecInit /\ ShapeIdle /\ MainIdle

SpecRec == SpecRecInit /\ [][RecNext]_vars

\* The step machine returns what the function computes as a whole
StepsAgree == pc = "done" => ret = generate_recommendations(summary)

\* ------------------------------------------------------------------------
\* Properties of generate_recommendations
\* ------------------------------------------------------------------------
Range(s) == { s[i] : i \in DOMAIN s }

IsPrefix(a, b) == Len(a) <= Len(b) /\ SubSeq(b, 1, Len(a)) = a

\* The layers of the summary under analysis (empty when the key is absent)
TheLayers == IF "layers" \in DOMAIN summary THEN summary.layers ELSE <<>>

ParamsOf(l) == IF "params" \in DOMAIN l THEN l.params ELSE 0

\* Layers whose lower-cased type contains sub
Matching(sub) ==
    { i \in 1..Len(TheLayers) :
        /\ "type" \in DOMAIN TheLayers[i]
        /\ Contains(sub, lower(TheLayers[i].type)) }

RECURSIVE SumParams(_)
SumParams(I) ==
    IF I = {} THEN 0
    ELSE LET i == CHOOSE j \in I : TRUE
         IN  ParamsOf(TheLayers[i]) + SumParams(I \ {i})

\* Rule i's own condition, stated on the summary
OwnCond(i) ==
    CASE i = 1 -> Len(TheLayers) < 10
      [] i = 2 -> 2 * SumParams(Matching(dense)) > SumParams(1..Len(TheLayers))
      [] i = 3 -> Matching(batchnorm) = {}
      [] i = 4 -> Cardinality(Matching(dense)) > Cardinality(Matching(conv))
      [] i = 5 -> Cardinality(Matching(activation)) > 5
      [] i = 6 -> SumParams(1..Len(TheLayers)) > 10000000

Returned == pc = "done" /\ TheLayers # <<>>

\* C1: for a non-empty layers sequence, recommendation i is in the returned
\* list if and only if rule i's own condition holds, for each i in 1..6,
\* whatever the other five rules did.
C1_RuleIndependence ==
    Returned => \A i \in 1..6 : (RuleText[i] \in Range(ret)) <=> OwnCond(i)

\* Scenario B: 12 layers, one BatchNormalization, 15,000,000 parameters, no
\* dense parameters: only rule 6 reports.
C1_Witness ==
    /\ Returned
    /\ Len(TheLayers) = 12
    /\ Cardinality(Matching(batchnorm)) = 1
    /\ SumParams(1..12) = 15000000
    /\ SumParams(Matching(dense)) = 0
    /\ ret = <<Large>>

\* The recommendations of a list appear in table order
InTableOrder(r) ==
    \A p, q \in 1..Len(r) :
        \A i, j \in 1..6 :
            (p < q /\ r[p] = RuleText[i] /\ r[q] = RuleText[j]) => i < j

ScenarioA ==
    <<[name |-> "a", type |-> TConv2D, params |-> 100],
      [name |-> "b", type |-> TDense, params |-> 600],
      [name |-> "c", type |-> TDense, params |-> 300]>>

\* C2: within a call the list only grows at its end, and the triggered
\* recommendations stand in table order 1 -> 6 in the list built and in the
\* list returned; scenario A returns exactly rules 1,2,3,4 in that order.
C2_AppendOnlyTableOrder ==
    [][/\ (pc # "start" => IsPrefix(recs, recs'))
       /\ InTableOrder(recs')
       /\ (pc' = "done" => InTableOrder(ret'))
       /\ (pc' = "done" /\ TheLayers = ScenarioA =>
              ret' = <<Shallow, DenseDominate, NoBatchNorm, DenseHeavy>>)]_vars

C2_Witness ==
    /\ pc = "done"
    /\ TheLayers = ScenarioA
    /\ ret = <<Shallow, DenseDominate, NoBatchNorm, DenseHeavy>>

\* C3: when the layers sequence is empty or absent the call returns exactly
\* the one-element no-layer-data list and evaluates none of the six rules.
C3_ZeroLayerShortCircuit ==
    ("layers" \notin DOMAIN summary \/ summary.layers = <<>>) =>
        /\ evaluated = {}
        /\ pc \in {"start", "done"}
        /\ pc = "done" => ret = <<NoLayerData>>

C3_Witness ==
    /\ pc = "done"
    /\ "layers" \in DOMAIN summary
    /\ summary.layers = <<>>
    /\ ret = <<NoLayerData>>

\* C4: the returned list is never empty; on a non-empty graph where no rule
\* triggers it is exactly the balanced sentinel; the sentinel never stands
\* beside a rule recommendation.
C4_NeverEmptyBalanced ==
    pc = "done" =>
        /\ ret # <<>>
        /\ (TheLayers # <<>> /\ (\A i \in 1..6 : ~OwnCond(i))) => ret = <<Balanced>>
        /\ Balanced \in Range(ret) => ret = <<Balanced>>

C4_Witness == Returned /\ ret = <<Balanced>> /\ \A i \in 1..6 : ~OwnCond(i)

\* C5: after the scan, total_params is the sum of params over all layers,
\* dense_params the sum over the layers whose lower-cased type contains
\* "dense", dense_layers / conv_layers / len(activations) the numbers of
\* layers containing "dense" / "conv" / "activation", and batchnorm_found
\* tells whether some layer contains "batchnorm"; a layer containing both
\* "conv" and "dense" counts in both buckets.
C5_Aggregates ==
    (pc \in Range(RulePc) \/ Returned) =>
        /\ total_params = SumParams(1..Len(TheLayers))
        /\ dense_params = SumParams(Matching(dense))
        /\ dense_layers = Cardinality(Matching(dense))
        /\ conv_layers = Cardinality(Matching(conv))
        /\ Len(activations) = Cardinality(Matching(activation))
        /\ batchnorm_found = (Matching(batchnorm) # {})

C5_Witness ==
    /\ pc = "rule1"
    /\ Matching(dense) \cap Matching(conv) # {}
    /\ Len(TheLayers) >= 3
    /\ conv_layers = Cardinality(Matching(conv))
    /\ dense_layers = Cardinality(Matching(dense))
    /\ conv_layers >= 2 /\ dense_layers >= 2 /\ total_params > 0

\* C10: a call leaves the summary and its layer records as they were given,
\* and a repeated call on the same summary returns the same list as the
\* call before it.
C10_ReadOnlyRepeatable ==
    /\ summary = given
    /\ (pc = "done" /\ calls >= 1) => ret = prev

C10_Witness == Returned /\ calls >= 1 /\ Len(ret) >= 2 /\ ret = prev

\* ------------------------------------------------------------------------
\* tensor_shape
\* ------------------------------------------------------------------------
\* Python values: None, an int, a list (or tuple), and an object carrying a
\* shape attribute (a tensor); a tensor's shape is None, a list of
\* dimensions, or something that cannot be iterated.
PyInt(n) == [py |-> "int", v |-> n]
List(q) == [py |-> "list", items |-> q]
Tensor(sh) == [py |-> "tensor", shape |-> sh]

\* The element kept as it is, with no substitution for None
KeepDim(dim) == dim

\* dim if dim is not None else -1   (line 56)
Dim(dim) == IF dim # None THEN dim ELSE PyInt(-1)

\* getattr(t, "shape", None)   (line 52)
GetShape(v) == IF "shape" \in DOMAIN v THEN v.shape ELSE None

\* lines 46-59; iterating a shape that is no sequence raises, and the bare
\* except turns that into None
RECURSIVE tensor_shape(_)
tensor_shape(v) ==
    IF v.py = "list"
        THEN List([i \in 1..Len(v.items) |-> tensor_shape(v.items[i])])
    ELSE LET shape == GetShape(v)
         IN  IF shape = None THEN None
             ELSE IF shape.py # "list" THEN None
             ELSE List([i \in 1..Len(shape.items) |-> Dim(shape.items[i])])

Dims == {None, PyInt(1), PyInt(3), PyInt(224)}
DimSeqs == SeqsUpTo(Dims, MaxDims)

\* Values put inside lists of shape-like values
Elements ==
    { None, PyInt(3), Tensor(None), Tensor(PyInt(7)),
      Tensor(List(<<PyInt(3), None>>)),
      List(<<PyInt(1), PyInt(224)>>),
      List(<<Tensor(List(<<None, PyInt(224)>>))>>) }

ShapeInputs ==
    {None, Tensor(None), Tensor(PyInt(7))}
    \cup { Tensor(List(d)) : d \in DimSeqs }
    \cup { List(d) : d \in DimSeqs }
    \cup { List(<<Tensor(List(d))>>) : d \in DimSeqs }
    \cup { List(<<List(d)>>) : d \in DimSeqs }
    \cup { List(q) : q \in SeqsUpTo(Elements, MaxItems) }

ShapeInit ==
    /\ t \in ShapeInputs
    /\ shape_out = None
    /\ spc = "call"

\* One call of tensor_shape on t
Resolve ==
    /\ spc = "call"
    /\ shape_out' = tensor_shape(t)
    /\ spc' = "done"
    /\ UNCHANGED <<t, recVars, mainVars>>

SpecShapeInit == ShapeInit /\ RecIdle /\ MainIdle

SpecShape == SpecShapeInit /\ [][Resolve]_vars

\* A flat sequence of dimensions with -1 for every unknown one
MinusOne(d) == [i \in 1..Len(d) |-> IF d[i] = None THEN PyInt(-1) ELSE d[i]]

IsDimList(v) == v.py = "list" /\ \A i \in 1..Len(v.items) : v.items[i] \in Dims

\* C6 as stated: None gives None, a flat list of dimensions gives the same
\* list with -1 for every None, and a list of such lists is mapped
\* element-wise.
C6_Original ==
    spc = "done" =>
        /\ t = None => shape_out = None
        /\ IsDimList(t) => shape_out = List(MinusOne(t.items))
        /\ (t.py = "list" /\ \A i \in 1..Len(t.items) : IsDimList(t.items[i])) =>
              shape_out =
                List([i \in 1..Len(t.items) |-> List(MinusOne(t.items[i].items))])

\* What one value resolves to: an object with a shape that is a sequence
\* gives that sequence with -1 for None; a list gives the list of what its
\* elements resolve to; anything else (None, a bare int, an object whose
\* shape is None or cannot be iterated) gives None.
RECURSIVE Canonical(_)
Canonical(v) ==
    CASE v.py = "tensor" /\ v.shape.py = "list" -> List(MinusOne(v.shape.items))
      [] v.py = "list" -> List([i \in 1..Len(v.items) |-> Canonical(v.items[i])])
      [] OTHER -> None

\* C6 (amended): None gives None; an object whose shape attribute is a flat
\* sequence of dimensions gives that sequence with -1 for every None and
\* every known integer kept; a list is mapped element-wise, nesting
\* preserved; a bare integer or None inside a list gives None.
C6_ShapeResolver ==
    spc = "done" =>
        /\ t = None => shape_out = None
        /\ (t.py = "tensor" /\ t.shape.py = "list") =>
              /\ shape_out.py = "list"
              /\ Len(shape_out.items) = Len(t.shape.items)
              /\ \A i \in 1..Len(t.shape.items) :
                    shape_out.items[i] =
                        IF t.shape.items[i] = None THEN PyInt(-1)
                                                   ELSE t.shape.items[i]
        /\ t.py = "list" =>
              /\ shape_out.py = "list"
              /\ Len(shape_out.items) = Len(t.items)
              /\ \A i \in 1..Len(t.items) : shape_out.items[i] = Canonical(t.items[i])
        /\ IsDimList(t) =>
              shape_out = List([i \in 1..Len(t.items) |-> None])

C6_Witness ==
    /\ spc = "done"
    /\ t = List(<<Tensor(List(<<PyInt(3), None, PyInt(224), PyInt(224)>>))>>)
    /\ shape_out = List(<<List(<<PyInt(3), PyInt(-1), PyInt(224), PyInt(224)>>)>>)

\* ------------------------------------------------------------------------
\* The analyzers and main
\* ------------------------------------------------------------------------
\* What the loader of each analyzer finds in the file.  A Keras model has a
\* name, input and output tensors and layer objects; count is what
\* count_params() returns, unless count_raises.
KerasLayer(n, c, cnt, raises) ==
    [name |-> n, cls |-> c, input |-> Tensor(List(<<None, PyInt(3)>>)),
     output |-> Tensor(List(<<None, PyInt(3)>>)), count |-> cnt,
     count_raises |-> raises]

KerasModels ==
    { [kind |-> "keras", name |-> "empty", inputs |-> None, outputs |-> None,
       layers |-> <<>>],
      [kind |-> "keras", name |-> "mlp",
       inputs |-> List(<<Tensor(List(<<None, PyInt(3)>>))>>),
       outputs |-> List(<<Tensor(List(<<None, PyInt(1)>>))>>),
       layers |-> <<KerasLayer("d1", TDense, 600, FALSE),
                    KerasLayer("d2", TDense, 0, TRUE)>>],
      [kind |-> "keras", name |-> "cnn",
       inputs |-> List(<<Tensor(List(<<None, PyInt(224), PyInt(224), PyInt(3)>>))>>),
       outputs |-> List(<<Tensor(List(<<None, PyInt(1)>>))>>),
       layers |-> <<KerasLayer("c1", TConv2D, 100, FALSE),
                    KerasLayer("b1", TBatchNorm, 0, FALSE),
                    KerasLayer("d1", TDense, 600, FALSE)>>] }

StrKey == [py |-> "str", v |-> "w"]
BytesKey == [py |-> "bytes", v |-> "w"]

TorchObjects ==
    { [kind |-> "torch_dict", keys |-> <<>>],
      [kind |-> "torch_dict", keys |-> <<StrKey, StrKey>>],
      [kind |-> "torch_dict", keys |-> <<StrKey, BytesKey>>],
      [kind |-> "torch_module", type |-> "Net",
       modules |-> <<[name |-> "", cls |-> "Net"], [name |-> "fc", cls |-> "Linear"]>>],
      [kind |-> "torch_other"] }

OnnxModels ==
    { [kind |-> "onnx", name |-> "g",
       nodes |-> <<[op_type |-> "Conv", inputs |-> <<"x">>, outputs |-> <<"y">>]>>] }

TfliteModels ==
    { [kind |-> "tflite", basename |-> "m.tflite",
       tensors |-> <<[name |-> "in", shape |-> <<1, 3>>, dtype |-> "float32"]>>] }

\* A file none of the loaders can read
Unreadable == [kind |-> "unreadable"]

Sources == KerasModels \cup TorchObjects \cup OnnxModels \cup TfliteModels
           \cup {Unreadable}

\* A call that raised
Raised == [py |-> "raised"]

\* lines 80-83: count_params(), 0 when it raises
CountParams(layer) == IF layer.count_raises THEN 0 ELSE layer.count

\* lines 62-102
analyze_keras(m) ==
    IF m.kind # "keras" THEN Raised
    ELSE [model_name |-> m.name,
          inputs |-> tensor_shape(m.inputs),
          outputs |-> tensor_shape(m.outputs),
          layers |->
            [i \in 1..Len(m.layers) |->
                [name |-> m.layers[i].name,
                 type |-> m.layers[i].cls,
                 input_tensor_shape |-> tensor_shape(m.layers[i].input),
                 output_tensor_shape |-> tensor_shape(m.layers[i].output),
                 params |-> CountParams(m.layers[i]),
                 inbound_nodes |-> <<>>]]]

\* The state-dict branch returning an empty layers list beside the keys
analyze_pytorch_layers(m) ==
    CASE m.kind = "torch_dict" ->
            [info |-> "State dict detected", keys |-> m.keys, layers |-> <<>>]
      [] m.kind = "torch_module" ->
            [name |-> m.type,
             layers |-> [i \in 1..Len(m.modules) |->
                            [name |-> m.modules[i].name, class |-> m.modules[i].cls]]]
      [] m.kind = "torch_other" -> [info |-> "Unknown PyTorch format"]
      [] OTHER -> Raised

\* lines 107-122
analyze_pytorch(m) ==
    CASE m.kind = "torch_dict" ->
            [info |-> "State dict detected", keys |-> m.keys]
      [] m.kind = "torch_module" ->
            [name |-> m.type,
             layers |-> [i \in 1..Len(m.modules) |->
                            [name |-> m.modules[i].name, class |-> m.modules[i].cls]]]
      [] m.kind = "torch_other" -> [info |-> "Unknown PyTorch format"]
      [] OTHER -> Raised

\* lines 125-136
analyze_onnx(m) ==
    IF m.kind # "onnx" THEN Raised
    ELSE [name |-> m.name, nodes |-> m.nodes]

\* lines 139-151
analyze_tflite(m) ==
    IF m.kind # "tflite" THEN Raised
    ELSE [name |-> m.basename, tensors |-> m.tensors]

Exts ==
    { <<".","h","5">>, <<".","H","5">>, <<".","k","e","r","a","s">>,
      <<".","p","t">>, <<".","p","t","h">>, <<".","o","n","n","x">>,
      <<".","t","f","l","i","t","e">>, <<".","t","x","t">>, <<>> }

\* lines 243-256: the analyzer chosen by the lower-cased extension and the
\* import flags; Raised stands for the RuntimeError of line 256 and for an
\* analyzer that raised
Analyze(e, tf, torch, onnx, m) ==
    CASE e \in {<<".","h","5">>, <<".","k","e","r","a","s">>} /\ tf -> analyze_keras(m)
      [] e \in {<<".","p","t">>, <<".","p","t","h">>} /\ torch -> analyze_pytorch(m)
      [] e = <<".","o","n","n","x">> /\ onnx -> analyze_onnx(m)
      [] e = <<".","t","f","l","i","t","e">> /\ tf -> analyze_tflite(m)
      [] OTHER -> Raised

\* The test made to hold for every result
HasLayersAlways(r) == TRUE

\* "layers" in result   (line 259)
HasLayers(r) == "layers" \in DOMAIN r

\* lines 259-260: result["recommendations"] = generate_recommendations(result)
WithRecommendations(r) ==
    [k \in DOMAIN r \cup {"recommendations"} |->
        IF k = "recommendations" THEN generate_recommendations(r) ELSE r[k]]

\* json.dump can encode every value the analyzers produce except a key of
\* a loaded dict that is no str, int, float, bool or None
Serializable(r) ==
    "keys" \in DOMAIN r => \A i \in 1..Len(r.keys) : r.keys[i].py # "bytes"

MainInit ==
    /\ mpc = "start"
    /\ ext \in Exts
    /\ TF_AVAILABLE \in BOOLEAN
    /\ TORCH_AVAILABLE \in BOOLEAN
    /\ ONNX_AVAILABLE \in BOOLEAN
    /\ source \in Sources
    /\ out_ok \in BOOLEAN
    /\ result = None
    /\ outfile = "absent"
    /\ reported = FALSE

\* lines 243-256
Dispatch ==
    /\ mpc = "start"
    /\ LET r == Analyze(lower(ext), TF_AVAILABLE, TORCH_AVAILABLE,
                        ONNX_AVAILABLE, source)
       IN  IF r = Raised
              THEN mpc' = "except" /\ result' = result
              ELSE mpc' = "recommend" /\ result' = r
    /\ UNCHANGED <<ext, TF_AVAILABLE, TORCH_AVAILABLE, ONNX_AVAILABLE, source,
                   out_ok, outfile, reported, recVars, shapeVars>>

\* lines 258-260
Recommend ==
    /\ mpc = "recommend"
    /\ result' = IF HasLayers(result) THEN WithRecommendations(result) ELSE result
    /\ mpc' = "open"
    /\ UNCHANGED <<ext, TF_AVAILABLE, TORCH_AVAILABLE, ONNX_AVAILABLE, source,
                   out_ok, outfile, reported, recVars, shapeVars>>

\* line 262: open(args.output, "w") creates or truncates the file, or raises
OpenOutput ==
    /\ mpc = "open"
    /\ IF out_ok
          THEN outfile' = "empty" /\ mpc' = "dump"
          ELSE outfile' = outfile /\ mpc' = "except"
    /\ UNCHANGED <<ext, TF_AVAILABLE, TORCH_AVAILABLE, ONNX_AVAILABLE, source,
                   out_ok, result, reported, recVars, shapeVars>>

\* line 263: json.dump writes the encoding piece by piece; at a value it
\* cannot encode it raises with the earlier pieces written, and the with
\* statement closes the file
Dump ==
    /\ mpc = "dump"
    /\ IF Serializable(result)
          THEN outfile' = "complete" /\ mpc' = "success"
          ELSE outfile' = "partial" /\ mpc' = "except"
    /\ UNCHANGED <<ext, TF_AVAILABLE, TORCH_AVAILABLE, ONNX_AVAILABLE, source,
                   out_ok, result, reported, recVars, shapeVars>>

\* lines 266-267
Success ==
    /\ mpc = "success"
    /\ mpc' = "end"
    /\ UNCHANGED <<ext, TF_AVAILABLE, TORCH_AVAILABLE, ONNX_AVAILABLE, source,
                   out_ok, result, outfile, reported, recVars, shapeVars>>

\* lines 269-270: the error is printed; nothing is removed
Except ==
    /\ mpc = "except"
    /\ reported' = TRUE
    /\ mpc' = "end"
    /\ UNCHANGED <<ext, TF_AVAILABLE, TORCH_AVAILABLE, ONNX_AVAILABLE, source,
                   out_ok, result, outfile, recVars, shapeVars>>

Init == MainInit /\ RecIdle /\ ShapeIdle

Next == Dispatch \/ Recommend \/ OpenOutput \/ Dump \/ Success \/ Except

Spec == Init /\ [][Next]_vars

\* C7: a run that hit an error has reported it and ends with no output file,
\* whole or partial; an output file exists only at the end of a run that
\* completed without error.
C7_NoOutputOnError ==
    mpc = "end" =>
        /\ reported => outfile = "absent"
        /\ outfile # "absent" => (~reported /\ outfile = "complete")

\* The result came from the state-dict branch of the PyTorch analyzer
FromStateDict ==
    /\ source.kind = "torch_dict"
    /\ result # None
    /\ mpc \in {"open", "dump", "success", "except", "end"}

\* C8 as stated: a state-dict source gives a result with an empty layers
\* sequence and the key listing, carrying the no-layer-data sentinel as its
\* recommendations.
C8_Original ==
    FromStateDict =>
        /\ "layers" \in DOMAIN result /\ result.layers = <<>>
        /\ result.keys = source.keys
        /\ "recommendations" \in DOMAIN result
        /\ result.recommendations = <<NoLayerData>>

\* C8 (amended): a state-dict source gives a result holding the info tag
\* and the raw key listing and no layers field; the run does not pass it to
\* generate_recommendations, and the result carries no recommendations.
C8_StateDictNoLayers ==
    FromStateDict =>
        /\ DOMAIN result = {"info", "keys"}
        /\ result.keys = source.keys

C8_Witness ==
    /\ FromStateDict
    /\ mpc = "end" /\ outfile = "complete"
    /\ result.keys = <<StrKey, StrKey>>
    /\ "recommendations" \notin DOMAIN result

\* The result as main hands it to the writer
HandedOver == mpc \in {"open", "dump", "success"}

\* C9 as stated: recommendations are attached only to a result whose layers
\* sequence is non-empty.
C9_Original ==
    (HandedOver /\ "recommendations" \in DOMAIN result) =>
        ("layers" \in DOMAIN result /\ result.layers # <<>>)

\* C9 (amended): recommendations are attached exactly to the results that
\* have a layers field; when that layers sequence is empty they are the
\* single no-layer-data sentinel.
C9_RecommendationsIffLayersField ==
    HandedOver =>
        /\ ("recommendations" \in DOMAIN result) <=> ("layers" \in DOMAIN result)
        /\ ("layers" \in DOMAIN result /\ result.layers = <<>>) =>
              result.recommendations = <<NoLayerData>>
        /\ ("layers" \in DOMAIN result /\ result.layers # <<>>) =>
              /\ result.recommendations # <<>>
              /\ NoLayerData \notin Range(result.recommendations)

C9_Witness ==
    /\ HandedOver
    /\ "layers" \in DOMAIN result /\ result.layers = <<>>
    /\ result.recommendations = <<NoLayerData>>

====
